---- MODULE Spec2Model ----
(***************************************************************************)
(* Model of the Blip integration of langchain_community:                   *)
(*   utilities/blip.py             MemoryBlipDistributedMessageManager,     *)
(*                                 BlipClientWrapper (predicate, callback)  *)
(*   chat_message_histories/blip.py BlipMessageHistory                      *)
(*   tools/blip/dynamic_content.py  SendDynamicContentTool                  *)
(* The specifications share the variables: SpecDedup (the dedup manager    *)
(* and the predicate/callback pipeline, several workers), SpecFailures     *)
(* (the same, with the failures of process_message observed), SpecHistory *)
(* (the context-variable history store, several concurrent coroutines),    *)
(* SpecSingleWriter (the history store used by one coroutine only),        *)
(* SpecBridge and SpecBridgeFair (the synchronous entry points of the      *)
(* history store, called from several threads) and SpecTool (the tool).    *)
(***************************************************************************)
EXTENDS Integers, Sequences, FiniteSets, TLC

(* ------------------------------ bounds --------------------------------- *)
MaxSize == 3          \* largest max_size a manager is constructed with
NumIds == 3           \* distinct message identifiers
MaxDeliveries == 3    \* deliveries of inbound messages per behaviour
MaxBase == 1          \* turns in the history the context variable starts with
MaxCalls == 3         \* calls on BlipMessageHistory per behaviour
MaxSyncCalls == 3     \* synchronous calls on BlipMessageHistory per behaviour
MaxRuns == 3          \* runs of SendDynamicContentTool per behaviour

MaxSizes == (0 - 1)..MaxSize
Ids == 1..NumIds
Workers == {"w1", "w2"}
Senders == {"userA", "userB"}
NoWorker == "none"
NoMessage == [id |-> 0, type_n |-> "none", from_n |-> "none"]

CHATSTATE == "application/vnd.lime.chatstate+json"
TEXT_PLAIN == "text/plain"
PENDING == "PENDING"
CONSUMED == "CONSUMED"

Types == {TEXT_PLAIN, CHATSTATE}
\* a message identifier belongs to one sender: a redelivery is the same message
SenderOf(i) == IF i % 2 = 1 THEN "userA" ELSE "userB"
Messages == {[id |-> i, type_n |-> t, from_n |-> SenderOf(i)] : i \in Ids, t \in Types}

VARIABLES
  \* MemoryBlipDistributedMessageManager
  max_size,                    \* self.max_size
  collected_messages,          \* self.collected_messages (manager.list())
  lock,                        \* self.lock: the worker holding it, or NoWorker
  \* BlipClientWrapper
  distributed_message_manager, \* TRUE iff a manager is configured
  \* per worker: position in message_predicate / process_message
  pc, message,
  \* observations
  delivered,                   \* number of deliveries so far
  invoked,                     \* runnable.ainvoke calls per message id
  replies,                     \* client.send_message calls per message id
  outbox,                      \* the last message handed to client.send_message
  lastCall, prevCall,          \* the two most recent fetch_message_status calls
  pendings,                    \* PENDING answers per message id
  called,                      \* identifiers fetch_message_status was called with
  chatstates,                  \* identifiers of the chatstate messages rejected
  filter_calls,                \* calls of the custom message_filter so far
  blip_user_id,                \* per worker: the identity given to the runnable
  failed,                      \* when observed: the identifiers whose
                               \* process_message raised
  \* BlipMessageHistory (SpecHistory)
  remote,                      \* the context variable on the server
  hpc,                         \* per task: the command it awaits, or "idle"
  op,                          \* per task: the call in progress
  history,                     \* per task: the local `history` of aadd_message
  cmds,                        \* per task: commands issued by the call in progress
  result,                      \* per task: its last completed call
  lastWriter,                  \* the task whose SET the server applied last
  ncalls,                      \* calls started so far
  callers,                     \* the tasks that call the history store
  hlog,                        \* single caller: its completed calls, in order
  base0,                       \* the context variable at the start
  \* BlipMessageHistory, synchronous entry points (SpecBridge)
  loop_running,                \* self.loop.is_running()
  tpc,                         \* per thread: "idle", or "result" when it is
                               \* blocked in Future.result()
  coro,                        \* per thread: the coroutine scheduled for it
  outcome,                     \* per thread: how its last call ended
  commands,                    \* commands sent to the transport so far
  reentries,                   \* run_until_complete calls on a running loop
  nsync,                       \* synchronous calls started so far
  \* SendDynamicContentTool (SpecTool)
  tool_sent,                   \* messages handed to client.send_message
  tool_result,                 \* the last run: its input and how it ended
  nruns                        \* runs started so far

dedupVars == <<max_size, collected_messages, lock, distributed_message_manager,
               pc, message, delivered,
               invoked, replies, outbox, lastCall, prevCall, pendings, called,
               filter_calls, blip_user_id, chatstates, failed>>
histVars == <<remote, hpc, op, history, cmds, result, lastWriter, ncalls,
              callers, hlog, base0>>
bridgeVars == <<loop_running, tpc, coro, outcome, commands, reentries, nsync>>
toolVars == <<tool_sent, tool_result, nruns>>
vars == <<dedupVars, histVars, bridgeVars, toolVars>>

(* ------------------------- list helpers -------------------------------- *)
Contains(list, x) == \E i \in 1..Len(list) : list[i] = x

\* list.remove(x): drops the first occurrence of x
RECURSIVE ListRemove(_, _)
ListRemove(list, x) ==
  IF list = <<>> THEN <<>>
  ELSE IF Head(list) = x THEN Tail(list)
  ELSE <<Head(list)>> \o ListRemove(Tail(list), x)

(* ------------- MemoryBlipDistributedMessageManager --------------------- *)
\* __init__: accepts every max_size, starts with an empty list and a free lock
ManagerInit(n) == [max_size |-> n, collected_messages |-> <<>>, lock |-> NoWorker]

\* store_message_id, line 128
StoreAppend(list, message_id) == Append(list, message_id)

\* store_message_id, lines 129-130
StoreEvictNever(list, max) == list
StoreEvict(list, max) ==
  IF Len(list) >= max THEN ListRemove(list, list[Len(list)]) ELSE list

\* a fetch_message_status call: its argument, its answer, the list before and
\* after it, and whether a chatstate message of that identifier had been
\* rejected when it returned
NoCall == [id |-> 0, status |-> "none", before |-> <<>>, after |-> <<>>,
           chat |-> FALSE]

(* ---------------------- BlipClientWrapper ------------------------------ *)
\* what runnable.ainvoke can answer (or raise)
Responses ==
  { [kind |-> "AIMessage", content |-> "hello", tool_calls |-> FALSE],
    [kind |-> "AIMessage", content |-> "",      tool_calls |-> FALSE],
    [kind |-> "AIMessage", content |-> "hello", tool_calls |-> TRUE],
    [kind |-> "other",     content |-> "hello", tool_calls |-> FALSE],
    [kind |-> "raise",     content |-> "",      tool_calls |-> FALSE] }
NoOutbound == [type_n |-> "none", content |-> "", to |-> "none"]

\* process_message, lines 262-263: the condition under which a reply is sent
ShouldReplyIgnoringToolCalls(r) == r.kind = "AIMessage" /\ r.content # ""
ShouldReply(r) == r.kind = "AIMessage" /\ r.content # "" /\ ~r.tool_calls

\* Identity.parse_str(message.from_n)
UserId(m) == m.from_n

dedupObs == <<delivered, invoked, replies, outbox, lastCall, prevCall,
              pendings, called, filter_calls, blip_user_id, chatstates>>
managerVars == <<max_size, collected_messages, lock>>
wrapperVars == <<distributed_message_manager>>

\* a fetch_message_status call returns: record it
Returned(w, st, before, after) ==
  /\ prevCall' = [id |-> lastCall.id, status |-> lastCall.status]
  /\ lastCall' = [id |-> message[w].id, status |-> st,
                  before |-> before, after |-> after,
                  chat |-> message[w].id \in chatstates]
  /\ pendings' = IF st = PENDING
                 THEN [pendings EXCEPT ![message[w].id] = @ + 1] ELSE pendings
  /\ called' = called \cup {message[w].id}

\* message_predicate, lines 295-302: which test decides about message m.
\* manager: a dedup manager is configured; message_filter: predicate() was
\* given a custom filter (line 274)
PredicateBranchChatstateLast(m, manager, message_filter) ==
  IF manager THEN "fetch"
  ELSE IF message_filter THEN "filter"
  ELSE IF m.type_n = CHATSTATE THEN "reject"
  ELSE "admit"
PredicateBranchFilterFirst(m, manager, message_filter) ==
  IF m.type_n = CHATSTATE THEN "reject"
  ELSE IF message_filter THEN "filter"
  ELSE IF manager THEN "fetch"
  ELSE "admit"
PredicateBranchNoChatstate(m, manager, message_filter) ==
  IF manager THEN "fetch"
  ELSE IF message_filter THEN "filter"
  ELSE "admit"
PredicateBranch(m, manager, message_filter) ==
  IF m.type_n = CHATSTATE THEN "reject"
  ELSE IF manager THEN "fetch"
  ELSE IF message_filter THEN "filter"
  ELSE "admit"

\* what a custom filter can answer; without one there is nothing to answer
Answers(message_filter) == IF message_filter THEN BOOLEAN ELSE {FALSE}

\* The receiver hands an inbound message to message_predicate (line 285)
\* lines 295-296: a chatstate message is rejected at once
\* line 297: with a manager, go on to fetch_message_status
\* lines 300-302: else the custom filter decides, else the message is admitted
\* answer: what the custom filter answers for m when it is called
Deliver(w, m, message_filter, answer) ==
  /\ pc[w] = "idle"
  /\ delivered < MaxDeliveries
  /\ delivered' = delivered + 1
  /\ LET branch == PredicateBranch(m, distributed_message_manager, message_filter)
     IN /\ pc' = [pc EXCEPT ![w] =
                    CASE branch = "reject" -> "idle"
                      [] branch = "fetch" -> "acquire"
                      [] branch = "filter" -> IF answer THEN "callback" ELSE "idle"
                      [] branch = "admit" -> "callback"]
        /\ filter_calls' = IF branch = "filter" THEN filter_calls + 1
                                                ELSE filter_calls
        /\ chatstates' = IF branch = "reject" THEN chatstates \cup {m.id} ELSE chatstates
  /\ message' = [message EXCEPT ![w] = IF pc'[w] = "idle" THEN NoMessage ELSE m]
  /\ UNCHANGED <<managerVars, wrapperVars, invoked, replies, outbox, lastCall,
                 prevCall, pendings, called, blip_user_id, histVars,
                 bridgeVars, toolVars, failed>>

\* fetch_message_status, line 142: `with self.lock` blocks until the lock is free
LockFree(w) == lock = NoWorker
Acquire(w) ==
  /\ pc[w] = "acquire"
  /\ LockFree(w)
  /\ lock' = w
  /\ pc' = [pc EXCEPT ![w] = "test"]
  /\ UNCHANGED <<max_size, collected_messages, wrapperVars, message,
                 dedupObs, histVars, bridgeVars, toolVars, failed>>

\* line 143 with the outcome CONSUMED (line 146): the lock is released on return
\* and message_predicate (line 299) answers False
TestConsumed(w) ==
  /\ pc[w] = "test"
  /\ Contains(collected_messages, message[w].id)
  /\ lock' = NoWorker
  /\ pc' = [pc EXCEPT ![w] = "idle"]
  /\ message' = [message EXCEPT ![w] = NoMessage]
  /\ Returned(w, CONSUMED, collected_messages, collected_messages)
  /\ UNCHANGED <<max_size, collected_messages, wrapperVars, delivered,
                 invoked, replies, outbox, filter_calls, blip_user_id, chatstates, histVars,
                 bridgeVars, toolVars, failed>>

\* line 143 with the identifier absent, then line 144 -> store_message_id line 128
TestAppend(w) ==
  /\ pc[w] = "test"
  /\ ~Contains(collected_messages, message[w].id)
  /\ collected_messages' = StoreAppend(collected_messages, message[w].id)
  /\ pc' = [pc EXCEPT ![w] = "evict"]
  /\ UNCHANGED <<max_size, lock, wrapperVars, message,
                 delivered, invoked, replies, outbox, lastCall, prevCall,
                 pendings, called, filter_calls, blip_user_id, chatstates, histVars,
                 bridgeVars, toolVars, failed>>

\* store_message_id lines 129-130, then line 145: PENDING, the lock is released
\* and message_predicate (line 299) answers True
EvictReturn(w) ==
  /\ pc[w] = "evict"
  /\ collected_messages' = StoreEvict(collected_messages, max_size)
  /\ lock' = NoWorker
  /\ pc' = [pc EXCEPT ![w] = "callback"]
  /\ Returned(w, PENDING,
              SubSeq(collected_messages, 1, Len(collected_messages) - 1),
              collected_messages')
  /\ UNCHANGED <<max_size, wrapperVars, message, delivered, invoked,
                 replies, outbox, filter_calls, blip_user_id, chatstates, histVars,
                 bridgeVars, toolVars, failed>>

\* process_message, lines 256-261: the runnable is invoked with the sender's
\* identity; the coroutine is suspended until the runnable answers
Invoke(w) ==
  /\ pc[w] = "callback"
  /\ blip_user_id' = [blip_user_id EXCEPT ![w] = UserId(message[w])]
  /\ invoked' = [invoked EXCEPT ![message[w].id] = @ + 1]
  /\ pc' = [pc EXCEPT ![w] = "reply"]
  /\ UNCHANGED <<managerVars, wrapperVars, message, delivered, replies,
                 outbox, lastCall, prevCall, pendings, called, filter_calls,
                 chatstates, histVars, bridgeVars, toolVars, failed>>

\* process_message raises when the runnable raises (line 258) and can raise
\* when send_message is called (line 264); nothing in it catches an exception
Raises(r) ==
  IF r.kind = "raise" THEN {TRUE} ELSE IF ShouldReply(r) THEN BOOLEAN ELSE {FALSE}

\* process_message, lines 258-270: the runnable answers r (or raises); a plain
\* AIMessage is sent back to the sender
Reply(w, r) ==
  /\ pc[w] = "reply"
  /\ IF ShouldReply(r)
       THEN /\ replies' = [replies EXCEPT ![message[w].id] = @ + 1]
            /\ outbox' = [type_n |-> TEXT_PLAIN, content |-> r.content,
                          to |-> blip_user_id[w]]
       ELSE UNCHANGED <<replies, outbox>>
  /\ \E raised \in Raises(r) :
       failed' = IF raised /\ failed.on
                   THEN [failed EXCEPT !.ids = @ \cup {message[w].id}]
                   ELSE failed
  /\ pc' = [pc EXCEPT ![w] = "idle"]
  /\ message' = [message EXCEPT ![w] = NoMessage]
  /\ blip_user_id' = [blip_user_id EXCEPT ![w] = "none"]
  /\ UNCHANGED <<managerVars, wrapperVars, delivered, invoked, lastCall,
                 prevCall, pendings, called, filter_calls, chatstates, histVars,
                 bridgeVars, toolVars>>

BridgeIdle ==
  /\ loop_running = FALSE /\ tpc = "unused" /\ coro = "unused"
  /\ outcome = "unused" /\ commands = 0 /\ reentries = 0 /\ nsync = 0

ToolIdle == tool_sent = <<>> /\ tool_result = "unused" /\ nruns = 0

HistIdle ==
  /\ remote = "unused" /\ hpc = "unused" /\ op = "unused"
  /\ history = "unused" /\ cmds = "unused" /\ result = "unused"
  /\ lastWriter = "unused" /\ ncalls = 0 /\ callers = {} /\ hlog = "unused"
  /\ base0 = "unused"

DedupStart ==
  /\ \E n \in MaxSizes :
       /\ max_size = ManagerInit(n).max_size
       /\ collected_messages = ManagerInit(n).collected_messages
       /\ lock = ManagerInit(n).lock
  /\ distributed_message_manager \in BOOLEAN
  \* a manager that is not handed to the wrapper is never called: one size will do
  /\ ~distributed_message_manager => max_size = MaxSize
  /\ pc = [w \in Workers |-> "idle"]
  /\ message = [w \in Workers |-> NoMessage]
  /\ delivered = 0
  /\ invoked = [i \in Ids |-> 0]
  /\ replies = [i \in Ids |-> 0]
  /\ outbox = NoOutbound
  /\ lastCall = NoCall
  /\ prevCall = [id |-> NoCall.id, status |-> NoCall.status]
  /\ pendings = [i \in Ids |-> 0]
  /\ called = {}
  /\ filter_calls = 0
  /\ chatstates = {}
  /\ blip_user_id = [w \in Workers |-> "none"]
  /\ HistIdle /\ BridgeIdle /\ ToolIdle

InitDedup == DedupStart /\ failed = [on |-> FALSE, ids |-> {}]

\* the same, with the failures of process_message observed
InitFailures == DedupStart /\ failed = [on |-> TRUE, ids |-> {}]

NextDedup ==
  \/ \E w \in Workers, m \in Messages, f \in BOOLEAN :
       \E a \in Answers(f) : Deliver(w, m, f, a)
  \/ \E w \in Workers : Acquire(w)
  \/ \E w \in Workers : TestConsumed(w)
  \/ \E w \in Workers : TestAppend(w)
  \/ \E w \in Workers : EvictReturn(w)
  \/ \E w \in Workers : Invoke(w)
  \/ \E w \in Workers, r \in Responses : Reply(w, r)

SpecDedup == InitDedup /\ [][NextDedup]_vars
SpecFailures == InitFailures /\ [][NextDedup]_vars

(* ----------------------- BlipMessageHistory --------------------------- *)
Tasks == {"t1", "t2"}
Turns == { [cls |-> "HumanMessage", content |-> "hi"],
           [cls |-> "AIMessage",    content |-> "hello"] }
NoTurn == [cls |-> "none", content |-> ""]
Histories(n) == UNION {[1..k -> Turns] : k \in 0..n}

SUCCESS == "success"
FAILURE == "failure"
COMMAND_RESOURCE_NOT_FOUND == "COMMAND_RESOURCE_NOT_FOUND"
OTHER_REASON == "OTHER_REASON"
NoReason == "None"             \* the response carries no reason
GET == "get"
SET == "set"

\* m.dict() of line 109 (langchain_core): the message as a dict that carries
\* its role as the "type" tag and its content
TypeOf(cls) == IF cls = "HumanMessage" THEN "human" ELSE "ai"
MessageDict(m) == [type |-> TypeOf(m.cls), content |-> m.content]

\* json.dumps([m.dict() for m in history]), line 109
DumpsNewOnly(h) == IF h = <<>> THEN <<>> ELSE <<MessageDict(h[Len(h)])>>
Dumps(h) == [i \in 1..Len(h) |-> MessageDict(h[i])]

\* convert_to_messages(json.loads(response.resource)), line 89
\* (langchain_core): each dict becomes the message class its "type" names
ClassOf(type) == IF type = "human" THEN "HumanMessage" ELSE "AIMessage"
ConvertToMessages(resource) ==
  [i \in 1..Len(resource) |->
     [cls |-> ClassOf(resource[i].type), content |-> resource[i].content]]

NotSet == [set |-> FALSE, value |-> <<>>]
Stored(value) == [set |-> TRUE, value |-> value]

Response(st, reason, resource) ==
  [status |-> st, reason |-> reason, resource |-> resource]

\* what the server can answer to the GET of lines 76-81: the stored value, not
\* found when there is none, or a failure for another reason or with no reason
GetResponses(rem) ==
  { IF rem.set THEN Response(SUCCESS, NoReason, rem.value)
               ELSE Response(FAILURE, COMMAND_RESOURCE_NOT_FOUND, <<>>),
    Response(FAILURE, OTHER_REASON, <<>>),
    Response(FAILURE, NoReason, <<>>) }

\* what the server can answer to the SET of lines 125-132
SetResponses ==
  { Response(SUCCESS, NoReason, <<>>),
    Response(FAILURE, COMMAND_RESOURCE_NOT_FOUND, <<>>),
    Response(FAILURE, OTHER_REASON, <<>>),
    Response(FAILURE, NoReason, <<>>) }

Return(value) == [kind |-> "return", value |-> value, error |-> "none"]
Raise(error) == [kind |-> "raise", value |-> <<>>, error |-> error]
FailedRequesting == "Failed requesting context variable chat_history for session"
FailedUpdating == "Failed updating context variable chat_history for session"
TypeError == "TypeError: 'NoneType' object is not subscriptable"

\* aget_messages, lines 82-89: what the coroutine makes of the GET response.
\* Line 84 subscripts response.reason before line 87 is reached.
AgetOutcomeNotFoundRaises(resp) ==
  IF resp.status = FAILURE /\ resp.reason = NoReason THEN Raise(TypeError)
  ELSE IF resp.status = FAILURE THEN Raise(FailedRequesting)
  ELSE Return(ConvertToMessages(resp.resource))
AgetOutcomeFailureAsEmpty(resp) ==
  IF resp.status = FAILURE THEN Return(<<>>)
  ELSE Return(ConvertToMessages(resp.resource))
AgetOutcome(resp) ==
  IF resp.status = FAILURE /\ resp.reason = NoReason THEN Raise(TypeError)
  ELSE IF resp.status = FAILURE /\ resp.reason = COMMAND_RESOURCE_NOT_FOUND
    THEN Return(<<>>)
  ELSE IF resp.status = FAILURE THEN Raise(FailedRequesting)
  ELSE Return(ConvertToMessages(resp.resource))

\* aadd_message, line 108
HistoryAppendFront(h, m) == <<m>> \o h
HistoryAppend(h, m) == Append(h, m)

\* aclear, line 147: the list that is encoded and written
ClearedHistoryNoTurn == <<NoTurn>>
ClearedHistory == <<>>

\* set_context_async, lines 133-135: the reason of a failure is not looked at
SetOutcomeNotFoundAsSuccess(resp) ==
  IF resp.status = FAILURE /\ resp.reason # COMMAND_RESOURCE_NOT_FOUND
    THEN Raise(FailedUpdating) ELSE Return(<<>>)
SetOutcome(resp) ==
  IF resp.status = FAILURE THEN Raise(FailedUpdating) ELSE Return(<<>>)

NoOp == [name |-> "none", arg |-> NoTurn, base |-> <<>>]
NoTask == "none"
NoResult == [op |-> "none", arg |-> NoTurn, base |-> <<>>, kind |-> "none",
             value |-> <<>>, error |-> "none", cmds |-> <<>>]
Sent(method) == [method |-> method, status |-> "sent", reason |-> NoReason]
Answered(method, resp) ==
  [method |-> method, status |-> resp.status, reason |-> resp.reason]

\* a call starts: the task is free and the budget of calls is not used up
CanCall(t) == t \in callers /\ hpc[t] = "idle" /\ ncalls < MaxCalls

\* the call of task t ends with outcome out, having issued the commands cs
Complete(t, out, cs) ==
  /\ result' = [result EXCEPT ![t] =
                  [op |-> op[t].name, arg |-> op[t].arg, base |-> op[t].base,
                   kind |-> out.kind, value |-> out.value,
                   error |-> out.error, cmds |-> cs]]
  /\ hlog' = IF Cardinality(callers) = 1
             THEN Append(hlog, [op |-> op[t].name, arg |-> op[t].arg,
                                base |-> op[t].base, kind |-> out.kind,
                                value |-> out.value])
             ELSE hlog
  /\ hpc' = [hpc EXCEPT ![t] = "idle"]
  /\ op' = [op EXCEPT ![t] = NoOp]
  /\ history' = [history EXCEPT ![t] = <<>>]
  /\ cmds' = [cmds EXCEPT ![t] = <<>>]

\* aget_messages, lines 76-81: the GET is sent
Call_aget_messages(t) ==
  /\ CanCall(t)
  /\ ncalls' = ncalls + 1
  /\ op' = [op EXCEPT ![t] = [name |-> "aget_messages", arg |-> NoTurn, base |-> <<>>]]
  /\ hpc' = [hpc EXCEPT ![t] = "get"]
  /\ cmds' = [cmds EXCEPT ![t] = <<Sent(GET)>>]
  /\ UNCHANGED <<remote, history, result, lastWriter, callers, hlog, base0,
                 dedupVars, bridgeVars, toolVars>>

\* aadd_message, line 107: it starts with aget_messages
Call_aadd_message(t, m) ==
  /\ CanCall(t)
  /\ ncalls' = ncalls + 1
  /\ op' = [op EXCEPT ![t] = [name |-> "aadd_message", arg |-> m, base |-> <<>>]]
  /\ hpc' = [hpc EXCEPT ![t] = "get"]
  /\ cmds' = [cmds EXCEPT ![t] = <<Sent(GET)>>]
  /\ UNCHANGED <<remote, history, result, lastWriter, callers, hlog, base0,
                 dedupVars, bridgeVars, toolVars>>

\* aclear, line 147: set_context_async with the encoded empty list
Call_aclear(t) ==
  /\ CanCall(t)
  /\ ncalls' = ncalls + 1
  /\ op' = [op EXCEPT ![t] = [name |-> "aclear", arg |-> NoTurn, base |-> <<>>]]
  /\ history' = [history EXCEPT ![t] = ClearedHistory]
  /\ hpc' = [hpc EXCEPT ![t] = "set"]
  /\ cmds' = [cmds EXCEPT ![t] = <<Sent(SET)>>]
  /\ UNCHANGED <<remote, result, lastWriter, callers, hlog, base0, dedupVars,
                 bridgeVars, toolVars>>

\* the GET is answered and aget_messages resumes (lines 82-89); inside
\* aadd_message the message is appended and the SET is sent (lines 108-109,
\* 125-132) unless aget_messages raised
GetResponse(t) ==
  /\ hpc[t] = "get"
  /\ \E resp \in GetResponses(remote) :
     LET out == AgetOutcome(resp)
         cs == <<Answered(GET, resp)>>
     IN IF op[t].name = "aget_messages" \/ out.kind = "raise"
          THEN Complete(t, out, cs)
          ELSE /\ history' = [history EXCEPT ![t] = HistoryAppend(out.value, op[t].arg)]
               /\ op' = [op EXCEPT ![t].base = out.value]
               /\ hpc' = [hpc EXCEPT ![t] = "set"]
               /\ cmds' = [cmds EXCEPT ![t] = cs \o <<Sent(SET)>>]
               /\ UNCHANGED <<result, hlog>>
  /\ UNCHANGED <<remote, lastWriter, ncalls, callers, base0, dedupVars,
                 bridgeVars, toolVars>>

\* the SET is answered: on success the server has replaced the whole value by
\* the payload of line 109 (line 147 for aclear); set_context_async resumes
\* (lines 133-135)
SetResponse(t, resp) ==
  /\ hpc[t] = "set"
  /\ resp \in SetResponses
  /\ IF resp.status = SUCCESS
       THEN remote' = Stored(Dumps(history[t])) /\ lastWriter' = t
       ELSE UNCHANGED <<remote, lastWriter>>
  /\ Complete(t, SetOutcome(resp),
              SubSeq(cmds[t], 1, Len(cmds[t]) - 1) \o <<Answered(SET, resp)>>)
  /\ UNCHANGED <<ncalls, callers, base0, dedupVars, bridgeVars, toolVars>>

DedupIdle ==
  /\ max_size = 0 /\ collected_messages = <<>> /\ lock = NoWorker
  /\ distributed_message_manager = FALSE
  /\ pc = [w \in Workers |-> "idle"]
  /\ message = [w \in Workers |-> NoMessage]
  /\ delivered = 0
  /\ invoked = [i \in Ids |-> 0]
  /\ replies = [i \in Ids |-> 0]
  /\ outbox = NoOutbound
  /\ lastCall = NoCall
  /\ prevCall = [id |-> NoCall.id, status |-> NoCall.status]
  /\ pendings = [i \in Ids |-> 0]
  /\ called = {}
  /\ filter_calls = 0
  /\ chatstates = {}
  /\ failed = [on |-> FALSE, ids |-> {}]
  /\ blip_user_id = [w \in Workers |-> "none"]

HistoryStart ==
  /\ remote \in {NotSet} \cup {Stored(Dumps(b)) : b \in Histories(MaxBase)}
  /\ base0 = remote
  /\ hpc = [t \in Tasks |-> "idle"]
  /\ op = [t \in Tasks |-> NoOp]
  /\ history = [t \in Tasks |-> <<>>]
  /\ cmds = [t \in Tasks |-> <<>>]
  /\ result = [t \in Tasks |-> NoResult]
  /\ lastWriter = NoTask
  /\ ncalls = 0
  /\ hlog = <<>>
  /\ DedupIdle /\ BridgeIdle /\ ToolIdle

\* several coroutines use the history of one session concurrently
InitHistory == HistoryStart /\ callers = Tasks

\* one coroutine uses the history of the session, nobody else writes
InitSingleWriter == HistoryStart /\ callers = {"t1"}

NextHistory ==
  \/ \E t \in Tasks : Call_aget_messages(t)
  \/ \E t \in Tasks, m \in Turns : Call_aadd_message(t, m)
  \/ \E t \in Tasks : Call_aclear(t)
  \/ \E t \in Tasks : GetResponse(t)
  \/ \E t \in Tasks, resp \in SetResponses : SetResponse(t, resp)

SpecHistory == InitHistory /\ [][NextHistory]_vars
SpecSingleWriter == InitSingleWriter /\ [][NextHistory]_vars

(* --------- BlipMessageHistory: the synchronous entry points ------------- *)
\* The history store is built on the thread whose current loop becomes
\* self.loop (line 38); that thread runs the loop (utilities/blip.py, start).
\* Thread "a" has a current loop of its own that never runs, thread "b" has
\* no current loop.
LOOP_THREAD == "loop"
Threads == {"loop", "a", "b"}
OWNING == "self.loop"
NoLoop == "none"

\* asyncio.get_event_loop() called on thread th (line 48)
CurrentLoop(th) ==
  IF th = LOOP_THREAD THEN OWNING ELSE IF th = "a" THEN "loop of a" ELSE NoLoop

\* loop.is_running() (line 49)
IsRunning(l) == l = OWNING /\ loop_running

\* the loop run_coroutine_threadsafe is given (lines 60, 98, 141): self.loop
TargetLoopCurrent(th) == CurrentLoop(th)
TargetLoop(th) == OWNING

\* the loop can run callbacks and coroutines: it is running and its thread
\* is not blocked inside a callback
LoopCanRunWhileBlocked(l) == IsRunning(l)
LoopCanRun(l) == IsRunning(l) /\ tpc[LOOP_THREAD] # "result"

NoCoro == [name |-> "none", loop |-> NoLoop, state |-> "none", sent |-> 0]
NoOutcome == [entry |-> "none", kind |-> "none", error |-> "none"]
AlreadyRunning == "RuntimeError: This event loop is already running"
NoCurrentLoop == "RuntimeError: There is no current event loop"
CoroutineError == "the error the coroutine raised"

CanCallSync(th) == tpc[th] = "idle" /\ nsync < MaxSyncCalls

\* asyncio.run_coroutine_threadsafe(coroutine, self.loop).result(): the
\* coroutine is scheduled on the loop and the calling thread blocks
RunCoroutineThreadsafe(th, entry, name) ==
  /\ coro' = [coro EXCEPT ![th] = [name |-> name, loop |-> TargetLoop(th),
                                   state |-> "scheduled", sent |-> 0]]
  /\ tpc' = [tpc EXCEPT ![th] = "result"]
  /\ outcome' = [outcome EXCEPT ![th] =
                   [entry |-> entry, kind |-> "none", error |-> "none"]]
  /\ UNCHANGED <<loop_running, commands, reentries>>

\* the messages property, lines 48-51
Call_messages(th) ==
  /\ CanCallSync(th)
  /\ nsync' = nsync + 1
  /\ IF CurrentLoop(th) = NoLoop
       THEN /\ outcome' = [outcome EXCEPT ![th] =
                 [entry |-> "messages", kind |-> "raise", error |-> NoCurrentLoop]]
            /\ UNCHANGED <<loop_running, tpc, coro, commands, reentries>>
       ELSE IF IsRunning(CurrentLoop(th))
         THEN /\ reentries' = reentries + 1
              /\ outcome' = [outcome EXCEPT ![th] =
                   [entry |-> "messages", kind |-> "raise", error |-> AlreadyRunning]]
              /\ UNCHANGED <<loop_running, tpc, coro, commands>>
         ELSE RunCoroutineThreadsafe(th, "messages", "aget_messages")
  /\ UNCHANGED <<dedupVars, histVars, toolVars>>

\* get_messages, line 60
Call_get_messages(th) ==
  /\ CanCallSync(th)
  /\ nsync' = nsync + 1
  /\ RunCoroutineThreadsafe(th, "get_messages", "aget_messages")
  /\ UNCHANGED <<dedupVars, histVars, toolVars>>

\* add_message, line 98
Call_add_message(th) ==
  /\ CanCallSync(th)
  /\ nsync' = nsync + 1
  /\ RunCoroutineThreadsafe(th, "add_message", "aadd_message")
  /\ UNCHANGED <<dedupVars, histVars, toolVars>>

\* clear, line 141
Call_clear(th) ==
  /\ CanCallSync(th)
  /\ nsync' = nsync + 1
  /\ RunCoroutineThreadsafe(th, "clear", "aclear")
  /\ UNCHANGED <<dedupVars, histVars, toolVars>>

\* BlipClientWrapper.start, line 340: the loop thread runs the loop
StartLoop ==
  /\ ~loop_running
  /\ tpc[LOOP_THREAD] = "idle"
  /\ loop_running' = TRUE
  /\ UNCHANGED <<tpc, coro, outcome, commands, reentries, nsync,
                 dedupVars, histVars, toolVars>>

\* the loop starts the coroutine scheduled for th: its first command is sent
\* (lines 76-81, or 125-132 for aclear) and the coroutine is suspended
LoopStart(th) ==
  /\ coro[th].state = "scheduled"
  /\ LoopCanRun(coro[th].loop)
  /\ coro' = [coro EXCEPT ![th].state = "awaiting", ![th].sent = 1]
  /\ commands' = commands + 1
  /\ UNCHANGED <<loop_running, tpc, outcome, reentries, nsync,
                 dedupVars, histVars, toolVars>>

\* the transport answers the command the coroutine awaits; ok is FALSE when
\* the answer makes the coroutine raise (lines 84, 88, 134)
TransportAnswer(th, ok) ==
  /\ coro[th].state = "awaiting"
  /\ coro' = [coro EXCEPT ![th].state = IF ok THEN "answered" ELSE "failed"]
  /\ UNCHANGED <<loop_running, tpc, outcome, commands, reentries, nsync,
                 dedupVars, histVars, toolVars>>

\* the loop resumes the coroutine: aadd_message goes on to its SET (line
\* 109) after a good GET, otherwise the coroutine ends and the future of the
\* caller gets its result or its exception
LoopResume(th) ==
  /\ coro[th].state \in {"answered", "failed"}
  /\ LoopCanRun(coro[th].loop)
  /\ IF coro[th].state = "answered" /\ coro[th].name = "aadd_message"
          /\ coro[th].sent = 1
       THEN /\ coro' = [coro EXCEPT ![th].state = "awaiting", ![th].sent = 2]
            /\ commands' = commands + 1
       ELSE /\ coro' = [coro EXCEPT ![th].state =
                          IF coro[th].state = "answered" THEN "result"
                                                         ELSE "exception"]
            /\ UNCHANGED commands
  /\ UNCHANGED <<loop_running, tpc, outcome, reentries, nsync,
                 dedupVars, histVars, toolVars>>

\* Future.result() returns the result of the coroutine or raises its error
FutureResult(th) ==
  /\ tpc[th] = "result"
  /\ coro[th].state \in {"result", "exception"}
  /\ outcome' = [outcome EXCEPT ![th].kind =
                   IF coro[th].state = "result" THEN "return" ELSE "raise",
                 ![th].error =
                   IF coro[th].state = "result" THEN "none" ELSE CoroutineError]
  /\ tpc' = [tpc EXCEPT ![th] = "idle"]
  /\ coro' = [coro EXCEPT ![th] = NoCoro]
  /\ UNCHANGED <<loop_running, commands, reentries, nsync,
                 dedupVars, histVars, toolVars>>

InitBridge ==
  /\ loop_running = FALSE
  /\ tpc = [th \in Threads |-> "idle"]
  /\ coro = [th \in Threads |-> NoCoro]
  /\ outcome = [th \in Threads |-> NoOutcome]
  /\ commands = 0 /\ reentries = 0 /\ nsync = 0
  /\ DedupIdle /\ HistIdle /\ ToolIdle

NextBridge ==
  \/ \E th \in Threads : Call_messages(th)
  \/ \E th \in Threads : Call_get_messages(th)
  \/ \E th \in Threads : Call_add_message(th)
  \/ \E th \in Threads : Call_clear(th)
  \/ StartLoop
  \/ \E th \in Threads : LoopStart(th)
  \/ \E th \in Threads, ok \in BOOLEAN : TransportAnswer(th, ok)
  \/ \E th \in Threads : LoopResume(th)
  \/ \E th \in Threads : FutureResult(th)

SpecBridge == InitBridge /\ [][NextBridge]_vars

\* A running loop runs every callback that is ready, the transport answers
\* every command and a thread waiting on a finished future wakes up.
BridgeFairness ==
  \A th \in Threads :
    /\ WF_vars(LoopStart(th))
    /\ WF_vars(\E ok \in BOOLEAN : TransportAnswer(th, ok))
    /\ WF_vars(LoopResume(th))
    /\ WF_vars(FutureResult(th))

SpecBridgeFair == InitBridge /\ [][NextBridge]_vars /\ BridgeFairness

(* ---------------------- SendDynamicContentTool ------------------------- *)
None == "None"
COLLECTION == "application/vnd.lime.collection+json"
MissingBlipUserId == "ValueError: Missing blip_user_id key in config['configurable']"

\* config['configurable']: a dict that carries blip_user_id or does not
Configurables ==
  {[k \in {"blip_user_id"} |-> u] : u \in Senders \cup {None}}
    \cup {[k \in {} |-> None]}

\* dict.get(key), lines 163 and 201
Get(dict, key) == IF key \in DOMAIN dict THEN dict[key] ELSE None

\* lines 164 and 202
UserIdMissingNever(user_id) == FALSE
UserIdMissing(user_id) == user_id = None

\* the messages of BlipMessageSchema (lines 90-113) the tool is run with
ToolMessages ==
  { [type |-> TEXT_PLAIN, content |-> "text"],
    [type |-> COLLECTION, content |-> "items"] }

\* json.loads(message.json()): the fields of the pydantic model
MessageJson(m) == [k \in {"type", "content"} |-> IF k = "type" THEN m.type ELSE m.content]

\* {"to": user_id, **content} (lines 172, 210): the keys of content win
ToolOutbound(user_id, content) ==
  [k \in {"to"} \cup DOMAIN content |->
     IF k \in DOMAIN content THEN content[k] ELSE user_id]

NoRun == [method |-> "none", user_id |-> None, message |-> "none",
          kind |-> "none", value |-> "none", before |-> <<>>]

\* _run (lines 163-174) and _arun (lines 201-214) differ in the text they
\* return only
ToolRun(method, configurable, m, returned) ==
  LET user_id == Get(configurable, "blip_user_id")
  IN /\ nruns < MaxRuns
     /\ nruns' = nruns + 1
     /\ IF UserIdMissing(user_id)
          THEN /\ tool_sent' = tool_sent
               /\ tool_result' = [method |-> method, user_id |-> user_id,
                                  message |-> m, kind |-> "raise",
                                  value |-> MissingBlipUserId,
                                  before |-> tool_sent]
          ELSE /\ tool_sent' = Append(tool_sent, ToolOutbound(user_id, MessageJson(m)))
               /\ tool_result' = [method |-> method, user_id |-> user_id,
                                  message |-> m, kind |-> "return",
                                  value |-> returned, before |-> tool_sent]
     /\ UNCHANGED <<dedupVars, histVars, bridgeVars>>

Tool_run(configurable, m) == ToolRun("_run", configurable, m, "message sent")
Tool_arun(configurable, m) ==
  ToolRun("_arun", configurable, m, "Message successfully sent !")

InitTool ==
  /\ tool_sent = <<>> /\ tool_result = NoRun /\ nruns = 0
  /\ DedupIdle /\ HistIdle /\ BridgeIdle

NextTool ==
  \/ \E c \in Configurables, m \in ToolMessages : Tool_run(c, m)
  \/ \E c \in Configurables, m \in ToolMessages : Tool_arun(c, m)

SpecTool == InitTool /\ [][NextTool]_vars

(* ===================== claims on SpecDedup ============================= *)
\* lastCall is a call that stored its identifier and then dropped an entry
Evicted(c) == c.status = PENDING /\ c.after # Append(c.before, c.id)

\* the lock gives mutual exclusion inside fetch_message_status
MutualExclusion ==
  \A w1, w2 \in Workers :
    (pc[w1] \in {"test", "evict"} /\ pc[w2] \in {"test", "evict"}) => w1 = w2

\* C1: with a manager configured, the runnable is invoked at most once per
\* message identifier and at most one reply is sent for it, for every
\* sequence of deliveries and redeliveries to the workers.
C1_AtMostOnceHandling ==
  (distributed_message_manager /\ max_size >= 1) =>
    \A i \in Ids : invoked[i] <= 1 /\ replies[i] <= 1

\* C2: for max_size >= 1, a call with an identifier that is not stored
\* answers PENDING, and the call that immediately follows it with the same
\* identifier answers CONSUMED.
C2_DedupIdempotence ==
  (distributed_message_manager /\ max_size >= 1) =>
    /\ (lastCall.status # "none" /\ ~Contains(lastCall.before, lastCall.id))
         => lastCall.status = PENDING
    /\ (prevCall.status = PENDING /\ lastCall.id = prevCall.id)
         => lastCall.status = CONSUMED

\* C3: when workers call fetch_message_status with one and the same
\* identifier, at most one of the calls answers PENDING, and the test and the
\* insertion of one call never interleave with those of another.
C3_AtomicCheckThenInsert ==
  (distributed_message_manager /\ max_size >= 1) =>
    /\ \A i \in Ids : called \subseteq {i} => pendings[i] <= 1
    /\ MutualExclusion

\* C4: whenever an insertion drops an entry of the list, the dropped entry
\* is the oldest one by insertion order.
C4_EvictionOrder ==
  (distributed_message_manager /\ max_size >= 1 /\ Evicted(lastCall)) =>
    lastCall.after = Tail(Append(lastCall.before, lastCall.id))

\* C5: for max_size >= 1, whenever no call is inside fetch_message_status
\* the list holds at most max_size identifiers.
C5_CapacityBound ==
  (distributed_message_manager /\ max_size >= 1 /\ lock = NoWorker) =>
    Len(collected_messages) <= max_size

\* C5 witness: a call on a list at capacity has returned and the list is
\* not empty
C5_Witness ==
  /\ distributed_message_manager /\ max_size >= 2 /\ lock = NoWorker
  /\ Evicted(lastCall)
  /\ Len(collected_messages) >= 1
  /\ lastCall.after = collected_messages

\* C6: no manager with max_size <= 0 exists and answers fetch_message_status:
\* its construction is rejected.
C6_NonPositiveCapacityRejected ==
  (distributed_message_manager /\ lastCall.status # "none") => max_size >= 1

ContentMessages == {m \in Messages : m.type_n # CHATSTATE}
AllIdle == \A w \in Workers : pc[w] = "idle"
NothingInvoked == \A i \in Ids : invoked[i] = 0

\* C13: a chatstate message is never admitted by message_predicate: no
\* worker is ever in the callback with one and the runnable is never invoked
\* for one, with or without a manager and whatever a custom filter answers.
C13_ChatstateNeverAdmitted ==
  /\ \A w \in Workers :
       pc[w] \in {"callback", "reply"} => message[w].type_n # CHATSTATE
  /\ (delivered = Cardinality(chatstates) /\ AllIdle) => NothingInvoked

\* C13 witness: with a manager, a chatstate message was delivered and dropped
C13_Witness ==
  /\ distributed_message_manager /\ max_size >= 1
  /\ chatstates # {} /\ delivered = 1 /\ AllIdle /\ NothingInvoked

\* C13 witness without a manager: only chatstate messages were delivered,
\* none was admitted and no custom filter was asked
C13_WitnessNoManager ==
  /\ ~distributed_message_manager
  /\ Cardinality(chatstates) = 2 /\ delivered = 2 /\ AllIdle /\ NothingInvoked
  /\ filter_calls = 0

\* worker w leaves fetch_message_status in this step
FetchReturns(w) == lock = w /\ lock' = NoWorker

\* message_predicate decides about a content message as lines 297-302 say
C14_Decision ==
  delivered' # delivered =>
  \A w \in Workers, m \in ContentMessages, f \in BOOLEAN :
  \A a \in Answers(f) :
    Deliver(w, m, f, a) =>
      IF distributed_message_manager
        THEN pc'[w] = "acquire" /\ filter_calls' = filter_calls
        ELSE /\ UNCHANGED <<lock, collected_messages, called, lastCall>>
             /\ IF f THEN /\ filter_calls' = filter_calls + 1
                           /\ (pc'[w] = "callback") = a
                           /\ (pc'[w] = "idle") = ~a
                      ELSE /\ filter_calls' = filter_calls
                           /\ pc'[w] = "callback"

\* with a manager the answer is (status = PENDING), and each evaluation of
\* the predicate enters fetch_message_status once: on a delivery
C14_Fetch ==
  \A w \in Workers :
    /\ FetchReturns(w) =>
         /\ lastCall'.id = message[w].id
         /\ (pc'[w] = "callback") = (lastCall'.status = PENDING)
         /\ (pc'[w] = "idle") = (lastCall'.status # PENDING)
    /\ (pc'[w] = "acquire" /\ pc[w] # "acquire") =>
         (pc[w] = "idle" /\ delivered' = delivered + 1)
    /\ (pc'[w] \in {"test", "evict"} /\ pc[w] \notin {"test", "evict"}) =>
         pc[w] = "acquire"

\* C14: for a content message, with a manager the predicate answers exactly
\* (fetch_message_status = PENDING) and the custom filter is never called;
\* without a manager it answers what the custom filter answers when there is
\* one, and admits the message otherwise; fetch_message_status is called at
\* most once per evaluation.
C14_DecisionOrder ==
  /\ [][C14_Decision /\ C14_Fetch]_vars
  /\ [](distributed_message_manager => filter_calls = 0)

\* C14 witness: a manager and a custom filter are configured, a content
\* message was delivered twice, admitted once and dropped once, and the
\* filter was never asked
C14_Witness ==
  /\ distributed_message_manager /\ max_size >= 2
  /\ lastCall.status = CONSUMED /\ prevCall.status = PENDING
  /\ lastCall.id = prevCall.id
  /\ pendings[lastCall.id] = 1
  /\ delivered = 2 /\ filter_calls = 0

\* C14 witness without a manager: the custom filter was asked twice and
\* admitted one content message only
C14_WitnessFilter ==
  /\ ~distributed_message_manager
  /\ filter_calls = 2 /\ delivered = 2 /\ chatstates = {}
  /\ \E w \in Workers : pc[w] = "callback"
  /\ \E w \in Workers : pc[w] = "idle"
  /\ NothingInvoked /\ called = {}

\* r is an AIMessage with content and without tool calls
PlainAnswer(r) == r.kind = "AIMessage" /\ r.content # "" /\ r.tool_calls = FALSE

\* process_message invokes the runnable once, with the sender's identity
C15_Invoke ==
  \A w \in Workers :
    /\ (pc[w] = "callback" /\ pc'[w] # "callback") =>
         /\ pc'[w] = "reply"
         /\ invoked' = [invoked EXCEPT ![message[w].id] = @ + 1]
         /\ blip_user_id'[w] = message[w].from_n
         /\ UNCHANGED <<replies, outbox>>
    /\ (pc'[w] = "reply" /\ pc[w] # "reply") => pc[w] = "callback"

\* when the runnable has answered, one text/plain message goes to the sender
\* for a plain AIMessage and nothing is sent otherwise
C15_Reply ==
  \A w \in Workers, r \in Responses :
    Reply(w, r) =>
      /\ pc'[w] = "idle" /\ invoked' = invoked
      /\ IF PlainAnswer(r)
           THEN /\ replies' = [replies EXCEPT ![message[w].id] = @ + 1]
                /\ outbox' = [type_n |-> TEXT_PLAIN, content |-> r.content,
                              to |-> message[w].from_n]
           ELSE UNCHANGED <<replies, outbox>>

C19_Frame ==
  delivered' # delivered =>
  \A w \in Workers, m \in Messages \ ContentMessages :
    (\E f \in BOOLEAN : \E a \in Answers(f) : Deliver(w, m, f, a)) =>
      /\ UNCHANGED <<collected_messages, lock, max_size, called, pendings,
                     lastCall, prevCall>>
      /\ pc'[w] = "idle"

\* fetch_message_status is never entered for a chatstate message, and an
\* identifier is answered CONSUMED because of an earlier PENDING only
C19_Record ==
  /\ \A w \in Workers :
       pc[w] \in {"acquire", "test", "evict"} => message[w].type_n # CHATSTATE
  /\ lock = NoWorker =>
       \A i \in Ids : Contains(collected_messages, i) => pendings[i] >= 1
  /\ (lastCall.chat /\ lastCall.status = CONSUMED) => pendings[lastCall.id] >= 1

\* C19: message_predicate rejects a chatstate message before
\* fetch_message_status is called: collected_messages is not modified, and a
\* later content message with the same identifier is still answered PENDING.
C19_RejectedChatstateLeavesRecord == [][C19_Frame]_vars /\ [](C19_Record)

\* C19 witness: a chatstate message was rejected and the first content
\* message with its identifier was then answered PENDING on the empty list
C19_Witness ==
  /\ distributed_message_manager /\ max_size >= 2
  /\ lastCall.chat /\ lastCall.status = PENDING
  /\ lastCall.before = <<>> /\ lastCall.after = <<lastCall.id>>
  /\ prevCall.status = "none"
  /\ chatstates = {lastCall.id} /\ delivered = 2

\* C22: a fetch_message_status call that answers CONSUMED leaves
\* collected_messages as it was, and an identifier leaves collected_messages
\* only when store_message_id, inserting another identifier, evicts it.
C22_HitFrame ==
  \A w \in Workers :
    (pc[w] = "test" /\ pc'[w] # "test"
     /\ Contains(collected_messages, message[w].id))
      => (collected_messages' = collected_messages
          /\ lastCall'.status = CONSUMED)
C22_RemovedByAnotherInsertion ==
  \A i \in Ids :
    (Contains(collected_messages, i) /\ ~Contains(collected_messages', i))
      => \E w \in Workers :
           lock = w /\ pc[w] = "evict" /\ message[w].id # i
C22_StoredUntilEvictedByAnother ==
  [][(distributed_message_manager /\ max_size >= 1) =>
       (C22_HitFrame /\ C22_RemovedByAnotherInsertion)]_vars

(* ====================== claims on SpecFailures ========================= *)
\* C21: the identifier is recorded before process_message runs and the
\* record is not undone when process_message raises: while no other
\* identifier has been inserted, the identifier of a failed message stays in
\* collected_messages and its redelivery does not invoke the runnable again.
C21_MarkingNeverUndone ==
  (distributed_message_manager /\ max_size >= 1) =>
    \A i \in failed.ids :
      called = {i} =>
        /\ invoked[i] <= 1
        /\ lock = NoWorker => Contains(collected_messages, i)

(* =========== claims on SpecHistory and SpecSingleWriter ================ *)
IsAdd(r) == r.op = "aadd_message" /\ r.kind = "return"
IsGet(r) == r.op = "aget_messages" /\ r.kind = "return"
NotFoundAnswer == [method |-> GET, status |-> FAILURE,
                   reason |-> COMMAND_RESOURCE_NOT_FOUND]

\* the last completed calls of t and u are aadd_message calls that read the
\* same history, and the write of u is the last one the server applied
Raced(t, u) ==
  /\ t # u /\ IsAdd(result[t]) /\ IsAdd(result[u])
  /\ result[t].base = result[u].base
  /\ lastWriter = u

\* C7: when two aadd_message calls for the same session and variable have
\* read the same history B, the stored value ends as B followed by the turn
\* of the call that wrote last: its length is |B|+1, the other turn is lost.
C7_LostUpdate ==
  \A t, u \in Tasks :
    Raced(t, u) =>
      /\ remote = Stored([i \in 1..(Len(result[u].base) + 1) |->
                            IF i <= Len(result[u].base)
                              THEN MessageDict(result[u].base[i])
                              ELSE MessageDict(result[u].arg)])
      /\ Len(remote.value) = Len(result[t].base) + 1

\* C7 witness: two concurrent calls (the only two calls made) appended
\* different turns to the same history and only the later writer's is stored
C7_Witness ==
  \E t, u \in Tasks :
    /\ Raced(t, u) /\ ncalls = 2
    /\ result[t].arg # result[u].arg
    /\ Len(result[t].base) >= 1
    /\ Len(remote.value) = Len(result[t].base) + 1
    /\ remote.value[Len(remote.value)] = MessageDict(result[u].arg)
    /\ \A i \in 1..Len(remote.value) :
         i > Len(result[t].base) => remote.value[i] # MessageDict(result[t].arg)

InitialHistory == IF base0.set THEN ConvertToMessages(base0.value) ELSE <<>>
AddAddGet(i) ==
  /\ i + 2 <= Len(hlog)
  /\ hlog[i].op = "aadd_message" /\ hlog[i].kind = "return"
  /\ hlog[i + 1].op = "aadd_message" /\ hlog[i + 1].kind = "return"
  /\ hlog[i + 2].op = "aget_messages" /\ hlog[i + 2].kind = "return"

\* C8: with a single writer and no failing command, aadd_message(t1),
\* aadd_message(t2), aget_messages() returns the history B the first call
\* found (the initial one, empty when not found) followed by t1, then t2.
C8_RoundTrip ==
  /\ \A i \in 1..Len(hlog) :
       AddAddGet(i) =>
         hlog[i + 2].value = hlog[i].base \o <<hlog[i].arg, hlog[i + 1].arg>>
  /\ AddAddGet(1) => hlog[1].base = InitialHistory

\* C8 witness: the three calls were made on a non-empty history with two
\* different turns
C8_Witness ==
  /\ AddAddGet(1)
  /\ Len(InitialHistory) >= 1
  /\ hlog[1].arg # hlog[2].arg
  /\ Len(hlog[3].value) = Len(InitialHistory) + 2

\* C8 on the not-found state: B is empty
C8_WitnessNotFound ==
  /\ AddAddGet(1) /\ ~base0.set
  /\ hlog[3].value = <<hlog[1].arg, hlog[2].arg>>

\* C9: when the GET of aget_messages is answered FAILURE with reason
\* RESOURCE_NOT_FOUND, aget_messages returns the empty list and raises
\* nothing (inside aadd_message the call goes on to write from the empty list).
C9_NotFoundAsEmpty ==
  \A t \in Tasks :
    /\ (result[t].op = "aget_messages" /\ result[t].cmds = <<NotFoundAnswer>>)
         => (result[t].kind = "return" /\ result[t].value = <<>>)
    /\ (result[t].op = "aadd_message" /\ result[t].cmds # <<>>
          /\ result[t].cmds[1] = NotFoundAnswer)
         => (Len(result[t].cmds) = 2 /\ result[t].base = <<>>)

\* C9 witness: aget_messages was answered not found and returned the empty list
C9_Witness ==
  \E t \in Tasks :
    /\ result[t].op = "aget_messages" /\ result[t].cmds = <<NotFoundAnswer>>
    /\ result[t].kind = "return" /\ result[t].value = <<>>

\* C10: when the GET of aget_messages is answered FAILURE with any reason
\* other than RESOURCE_NOT_FOUND, or with no reason at all, aget_messages
\* raises the store-level failure naming the variable and the session.
C10_ReadFailureRaisesStoreError ==
  \A t \in Tasks :
    (/\ result[t].op = "aget_messages"
     /\ result[t].cmds # <<>>
     /\ result[t].cmds[1].status = FAILURE
     /\ result[t].cmds[1].reason # COMMAND_RESOURCE_NOT_FOUND)
      => (result[t].kind = "raise" /\ result[t].error = FailedRequesting)

\* the call r ended on a SET that the server answered FAILURE
SetFailed(r) ==
  /\ r.cmds # <<>>
  /\ r.cmds[Len(r.cmds)].method = SET
  /\ r.cmds[Len(r.cmds)].status = FAILURE
NumSent(cs, method) == Cardinality({i \in 1..Len(cs) : cs[i].method = method})

\* C11: every FAILURE answer to the SET of set_context_async (from
\* aadd_message and from aclear), whatever its reason and RESOURCE_NOT_FOUND
\* included, raises the error naming the variable and the session; it is
\* never turned into a success and the SET is sent once only.
C11_WriteFailureRaises ==
  \A t \in Tasks :
    /\ SetFailed(result[t]) =>
         /\ result[t].kind = "raise"
         /\ result[t].error = FailedUpdating
         /\ NumSent(result[t].cmds, SET) = 1
    /\ NumSent(cmds[t], SET) <= 1

\* C11 witness: both an aadd_message and an aclear ended on a SET answered
\* FAILURE, one of them with RESOURCE_NOT_FOUND, and raised
C11_Witness ==
  \E t, u \in Tasks :
    /\ SetFailed(result[t]) /\ result[t].op = "aadd_message"
    /\ result[t].cmds[2].reason = COMMAND_RESOURCE_NOT_FOUND
    /\ result[t].kind = "raise"
    /\ SetFailed(result[u]) /\ result[u].op = "aclear"
    /\ result[u].kind = "raise"

ClearThenGet(i) ==
  /\ i + 1 <= Len(hlog)
  /\ hlog[i].op = "aclear" /\ hlog[i].kind = "return"
  /\ hlog[i + 1].op = "aget_messages" /\ hlog[i + 1].kind = "return"

\* C12: aclear sends exactly one SET, whose payload is the encoded empty
\* list, and no GET; with a single writer, aget_messages after a successful
\* aclear returns the empty list whatever the history was; a FAILURE answer
\* makes aclear raise the error a failed write of aadd_message raises.
C12_Clear ==
  /\ \A i \in 1..Len(hlog) : ClearThenGet(i) => hlog[i + 1].value = <<>>
  /\ \A t \in Tasks :
       /\ op[t].name = "aclear" => cmds[t] = <<Sent(SET)>>
       /\ result[t].op = "aclear" =>
            /\ Len(result[t].cmds) = 1
            /\ result[t].cmds[1].method = SET
            /\ result[t].cmds[1].status = SUCCESS =>
                 (result[t].kind = "return" /\ remote = Stored(<<>>))
            /\ result[t].cmds[1].status = FAILURE =>
                 (result[t].kind = "raise" /\ result[t].error = FailedUpdating)

\* C12 witness: a turn was appended to a non-empty history, the history was
\* cleared and then read as empty
C12_Witness ==
  /\ Len(InitialHistory) >= 1
  /\ Len(hlog) = 3
  /\ hlog[1].op = "aadd_message" /\ hlog[1].kind = "return"
  /\ ClearThenGet(2)
  /\ hlog[3].value = <<>>

\* C12 on a failure: aclear raised and the stored history is untouched
C12_WitnessFailure ==
  /\ Len(hlog) = 1 /\ hlog[1].op = "aclear" /\ hlog[1].kind = "raise"
  /\ base0.set /\ remote = base0 /\ Len(remote.value) >= 1

\* the GET of call r failed for a reason other than not found
ReadFailed(r) ==
  /\ r.cmds # <<>>
  /\ r.cmds[1].method = GET
  /\ r.cmds[1].status = FAILURE
  /\ r.cmds[1].reason # COMMAND_RESOURCE_NOT_FOUND

\* commands of a completed call: only the last one can be a failure that
\* ended the call (a GET answered not found reads as the empty history)
NoCommandAfterFailure(cs) ==
  \A i \in 1..(Len(cs) - 1) :
    cs[i].status = FAILURE =>
      (cs[i].method = GET /\ cs[i].reason = COMMAND_RESOURCE_NOT_FOUND)

C20_Commands ==
  \A t \in Tasks :
    /\ Len(cmds[t]) <= 2
    /\ result[t].op = "aget_messages" =>
         (Len(result[t].cmds) = 1 /\ result[t].cmds[1].method = GET)
    /\ result[t].op = "aadd_message" =>
         /\ NumSent(result[t].cmds, GET) = 1
         /\ result[t].cmds[1].method = GET
         /\ NumSent(result[t].cmds, SET) <= 1
         /\ Len(result[t].cmds) <= 2
    /\ (result[t].op = "aadd_message" /\ ReadFailed(result[t])) =>
         (result[t].kind = "raise" /\ Len(result[t].cmds) = 1)
    /\ NoCommandAfterFailure(result[t].cmds)

\* a call that ends while it awaits its GET leaves the stored value alone
C20_ReadLeavesRemote ==
  \A t \in Tasks : (hpc[t] = "get" /\ hpc'[t] # "get") => remote' = remote

\* C20: aget_messages sends exactly one GET; aadd_message sends exactly one
\* GET and then at most one SET; when the GET of aadd_message fails for a
\* reason other than not found the error reaches the caller, no SET is sent
\* and the stored value stays as it was; nothing is sent after a failure.
C20_OneRoundTrip == [](C20_Commands) /\ [][C20_ReadLeavesRemote]_vars

\* C20 witness: aadd_message raised on a failed GET, having sent that GET
\* alone, and the history stored at the start is still there
C20_Witness ==
  \E t \in Tasks :
    /\ result[t].op = "aadd_message" /\ ReadFailed(result[t])
    /\ result[t].kind = "raise" /\ Len(result[t].cmds) = 1
    /\ lastWriter = NoTask /\ remote = base0 /\ base0.set

(* ============== claims on SpecBridge and SpecBridgeFair ================ *)
\* C16: no synchronous entry point calls run_until_complete on a loop that
\* is already running: with a running loop the call is scheduled on the
\* owning loop.
C16_NeverReentersRunningLoop ==
  /\ reentries = 0
  /\ \A th \in Threads : outcome[th].error # AlreadyRunning

\* a call returns what its coroutine ended with
C17_ResultOfCoroutine ==
  \A th \in Threads :
    (tpc[th] = "result" /\ tpc'[th] = "idle") =>
      /\ coro[th].state \in {"result", "exception"}
      /\ outcome'[th].kind =
           (IF coro[th].state = "result" THEN "return" ELSE "raise")

\* th waits for a coroutine while the loop runs
Waiting(th) == th # LOOP_THREAD /\ tpc[th] = "result" /\ loop_running

\* C17: a get_messages, add_message or clear call made from a thread other
\* than the loop's, while the loop is running (its thread is not blocked)
\* and the transport answers, eventually returns the result of the coroutine
\* or raises its error.
C17_SyncCallCompletes ==
  /\ \A th \in Threads :
       Waiting(th) ~> (tpc[th] = "idle" \/ tpc[LOOP_THREAD] = "result")
  /\ [][C17_ResultOfCoroutine]_vars

\* C17 witness: the loop runs, its thread is free, and calls made from two
\* other threads have come back, one with a result and one with an error
C17_Witness ==
  /\ loop_running /\ tpc[LOOP_THREAD] = "idle"
  /\ outcome["a"].entry = "add_message" /\ outcome["a"].kind = "return"
  /\ outcome["b"].entry = "clear" /\ outcome["b"].kind = "raise"
  /\ outcome["b"].error = CoroutineError
  /\ tpc["a"] = "idle" /\ tpc["b"] = "idle"
  /\ commands = 3

\* the thread that runs the owning loop is inside a synchronous get_messages,
\* add_message or clear call made while the loop was running
BlockedOnOwnLoop == tpc[LOOP_THREAD] = "result" /\ loop_running

\* the coroutine of the blocked call has not started and the call has no outcome
C23_CoroutineNotStarted ==
  BlockedOnOwnLoop =>
    /\ coro[LOOP_THREAD].state = "scheduled"
    /\ coro[LOOP_THREAD].sent = 0
    /\ outcome[LOOP_THREAD].kind = "none"

\* C23: a synchronous get_messages, add_message or clear call made on the
\* thread that runs the owning loop never returns: the coroutine it
\* scheduled never starts, and while the thread is blocked no command is sent.
C23_CallOnLoopThreadNeverReturns ==
  /\ []C23_CoroutineNotStarted
  /\ [][BlockedOnOwnLoop => (BlockedOnOwnLoop' /\ commands' = commands
                               /\ coro'[LOOP_THREAD] = coro[LOOP_THREAD])]_vars

\* C23 witness: the loop thread is blocked in add_message on its own running
\* loop, and a call from another thread waits behind it with its coroutine
\* not started either
C23_Witness ==
  /\ BlockedOnOwnLoop
  /\ outcome[LOOP_THREAD].entry = "add_message"
  /\ coro[LOOP_THREAD].name = "aadd_message"
  /\ tpc["a"] = "result" /\ coro["a"].state = "scheduled"
  /\ commands = 0

(* ========================= claims on SpecTool ========================== *)
\* C18: when config['configurable'] carries no blip_user_id, _run and _arun
\* raise the error that names the missing key and hand nothing to
\* send_message; when it carries one, exactly one message is sent and it is
\* addressed to that identity.
C18_MissingCallerIdentity ==
  tool_result.method # "none" =>
    IF tool_result.user_id = None
      THEN /\ tool_result.kind = "raise"
           /\ tool_result.value = MissingBlipUserId
           /\ tool_sent = tool_result.before
      ELSE /\ tool_result.kind = "return"
           /\ Len(tool_sent) = Len(tool_result.before) + 1
           /\ SubSeq(tool_sent, 1, Len(tool_result.before)) = tool_result.before
           /\ tool_sent[Len(tool_sent)].to = tool_result.user_id
           /\ tool_sent[Len(tool_sent)].type = tool_result.message.type
           /\ tool_sent[Len(tool_sent)].content = tool_result.message.content

\* C18 witness: after a run that sent a message, _arun was run without a
\* blip_user_id: it raised and the one message sent is still the only one
C18_Witness ==
  /\ tool_result.method = "_arun" /\ tool_result.user_id = None
  /\ tool_result.kind = "raise"
  /\ Len(tool_sent) = 1 /\ nruns = 2

\* C18 witness of the other case: _run sent one message to the caller
C18_WitnessSent ==
  /\ tool_result.method = "_run" /\ tool_result.kind = "return"
  /\ nruns = 1 /\ Len(tool_sent) = 1 /\ tool_sent[1].to = "userB"

====
